---- MODULE Spec2Model ----
(***************************************************************************)
(* rewritefs (src/rewrite.c): the configuration parser, the caller command *)
(* line reader, the rule engine (rewrite / apply_rule) and the autocreate  *)
(* identity switch.                                                        *)
(*                                                                         *)
(* Text is a sequence of one-character strings; EOF, NUL and BADBYTE stand *)
(* for getc's EOF, the byte 0 and a byte that is not valid UTF-8.          *)
(***************************************************************************)
EXTENDS Integers, Sequences, FiniteSets, TLC

EOF == "EOF"
NUL == "NUL"
BADBYTE == "0xFF"

\* (char *)NULL: no text is equal to it
NULL == <<"(null)">>

\* parse_regexp(fd, regexp, 0): the separator is still to be read
NOSEP == "(0)"

isspace(c) == c \in {" ", "\t", "\n", "\r", "\f"}

isalnum(c) ==
    c \in {"a","b","c","d","e","f","g","h","i","j","k","l","m","n","o","p","q",
           "r","s","t","u","v","w","x","y","z","A","B","C","D","E","F","G","H",
           "I","J","K","L","M","N","O","P","Q","R","S","T","U","V","W","X","Y",
           "Z","0","1","2","3","4","5","6","7","8","9"}

\* getc on the file fd whose next byte is fd[pos]
getc(fd, pos) == IF pos <= Len(fd) THEN fd[pos] ELSE EOF

(***************************************************************************)
(* The regex engine (libpcre), for the pattern language the configurations *)
(* below use: literals, \c for a non-alphanumeric c, '.', '^', '$',        *)
(* capture groups (nested or not), and the quantifiers '*' and '?' on a    *)
(* one-character atom and '?' on a group.  A compiled pattern is a flat    *)
(* sequence of nodes; matching is PCRE's leftmost, greedy backtracking.    *)
(***************************************************************************)
PCRE_CASELESS == "i"
PCRE_EXTENDED == "x"
PCRE_UTF8 == "u"

PCRE_ERROR_NOMATCH == -1
PCRE_ERROR_NOSUBSTRING == -7
PCRE_ERROR_BADUTF8 == -10

Node(t, c, q, g) == [t |-> t, c |-> c, q |-> q, g |-> g]

NoCode == [ok |-> FALSE, code |-> <<>>, captures |-> 0]

RECURSIVE compile_loop(_, _, _, _, _, _)
compile_loop(body, i, flags, code, ncap, stack) ==
    IF i > Len(body)
    THEN IF stack # <<>> THEN NoCode
         ELSE [ok |-> TRUE, code |-> code, captures |-> ncap]
    ELSE
    LET c == body[i]
        q == IF i < Len(body) /\ body[i+1] \in {"*", "?"} THEN body[i+1] ELSE "1"
        step == IF q = "1" THEN 1 ELSE 2
    IN
    IF PCRE_EXTENDED \in flags /\ isspace(c)
    THEN compile_loop(body, i+1, flags, code, ncap, stack)
    ELSE IF c = "^"
    THEN compile_loop(body, i+1, flags, Append(code, Node("bol", "", "1", 0)), ncap, stack)
    ELSE IF c = "$"
    THEN compile_loop(body, i+1, flags, Append(code, Node("eol", "", "1", 0)), ncap, stack)
    ELSE IF c = "("
    THEN compile_loop(body, i+1, flags, Append(code, Node("open", "", "1", ncap+1)),
                      ncap+1, <<Len(code)+1>> \o stack)
    ELSE IF c = ")"
    THEN IF stack = <<>> \/ q = "*" THEN NoCode
         ELSE LET o == Head(stack)
                  g == code[o].g
                  marked == IF q = "?" THEN [code EXCEPT ![o].q = "?"] ELSE code
              IN compile_loop(body, i+step, flags, Append(marked, Node("close", "", "1", g)),
                              ncap, Tail(stack))
    ELSE IF c \in {"*", "?", "+", "[", "|", "{"}
    THEN NoCode
    ELSE IF c = "\\"
    THEN IF i = Len(body) \/ isalnum(body[i+1]) THEN NoCode
         ELSE LET q2 == IF i+1 < Len(body) /\ body[i+2] \in {"*", "?"} THEN body[i+2] ELSE "1"
              IN compile_loop(body, i + (IF q2 = "1" THEN 2 ELSE 3), flags,
                              Append(code, Node("chr", body[i+1], q2, 0)), ncap, stack)
    ELSE IF c = "."
    THEN compile_loop(body, i+step, flags, Append(code, Node("any", "", q, 0)), ncap, stack)
    ELSE compile_loop(body, i+step, flags, Append(code, Node("chr", c, q, 0)), ncap, stack)

\* pcre_compile + pcre_fullinfo(PCRE_INFO_CAPTURECOUNT)
pcre_compile(body, flags) == compile_loop(body, 1, flags, <<>>, 0, <<>>)

UPPER == <<"A","B","C","D","E","F","G","H","I","J","K","L","M","N","O","P","Q",
           "R","S","T","U","V","W","X","Y","Z">>
LOWER == <<"a","b","c","d","e","f","g","h","i","j","k","l","m","n","o","p","q",
           "r","s","t","u","v","w","x","y","z">>

tolower(c) ==
    IF \E k \in 1..Len(UPPER) : UPPER[k] = c
    THEN LOWER[CHOOSE k \in 1..Len(UPPER) : UPPER[k] = c]
    ELSE c

AtomOK(n, ch, flags) ==
    IF n.t = "any" THEN ch # "\n"
    ELSE ch = n.c \/ (PCRE_CASELESS \in flags /\ tolower(ch) = tolower(n.c))

\* index of the close node of group g
CloseOf(code, g) == CHOOSE k \in 1..Len(code) : code[k].t = "close" /\ code[k].g = g

\* number of consecutive subject characters from pos on that atom n accepts
RECURSIVE Run(_, _, _, _)
Run(n, s, pos, flags) ==
    IF pos < Len(s) /\ AtomOK(n, s[pos+1], flags) THEN 1 + Run(n, s, pos+1, flags) ELSE 0

NoMatch == [ok |-> FALSE, pos |-> 0, caps |-> <<>>]

\* match code[k..] at offset pos; st: where each open group started;
\* caps: the <<start, end>> of each group, <<-1, -1>> while unset
RECURSIVE Match(_, _, _, _, _, _, _)
RECURSIVE MatchStar(_, _, _, _, _, _, _, _)
Match(code, k, s, pos, st, caps, flags) ==
    IF k > Len(code) THEN [ok |-> TRUE, pos |-> pos, caps |-> caps]
    ELSE
    LET n == code[k] IN
    IF n.t = "bol"
    THEN IF pos = 0 THEN Match(code, k+1, s, pos, st, caps, flags) ELSE NoMatch
    ELSE IF n.t = "eol"
    THEN IF pos = Len(s) \/ (pos = Len(s) - 1 /\ s[Len(s)] = "\n")
         THEN Match(code, k+1, s, pos, st, caps, flags) ELSE NoMatch
    ELSE IF n.t = "open"
    THEN LET in == Match(code, k+1, s, pos, [st EXCEPT ![n.g] = pos], caps, flags)
         IN IF in.ok \/ n.q # "?" THEN in
            ELSE Match(code, CloseOf(code, n.g) + 1, s, pos, st, caps, flags)
    ELSE IF n.t = "close"
    THEN Match(code, k+1, s, pos, st, [caps EXCEPT ![n.g] = <<st[n.g], pos>>], flags)
    ELSE IF n.q = "1"
    THEN IF pos < Len(s) /\ AtomOK(n, s[pos+1], flags)
         THEN Match(code, k+1, s, pos+1, st, caps, flags) ELSE NoMatch
    ELSE LET run == Run(n, s, pos, flags)
             most == IF n.q = "?" /\ run > 1 THEN 1 ELSE run
         IN MatchStar(code, k, s, pos, st, caps, flags, most)

MatchStar(code, k, s, pos, st, caps, flags, j) ==
    LET r == Match(code, k+1, s, pos+j, st, caps, flags)
    IN IF r.ok \/ j = 0 THEN r ELSE MatchStar(code, k, s, pos, st, caps, flags, j-1)

\* the leftmost match: try the offsets start, start+1, .. of the subject
RECURSIVE MatchFrom(_, _, _)
RECURSIVE MatchAt(_, _, _, _)
MatchFrom(re, s, start) ==
    MatchAt(re, s, start,
            Match(re.code, 1, s, start, [g \in 1..re.captures |-> 0],
                  [g \in 1..re.captures |-> <<-1, -1>>], re.flags))

MatchAt(re, s, start, r) ==
    IF r.ok THEN [ok |-> TRUE, start |-> start, pos |-> r.pos, caps |-> r.caps]
    ELSE IF start < Len(s) THEN MatchFrom(re, s, start+1)
    ELSE [ok |-> FALSE, start |-> 0, pos |-> 0, caps |-> <<>>]

\* the highest-numbered group that is set, 0 if none
TopSet(caps) ==
    LET set == {g \in DOMAIN caps : caps[g][1] >= 0}
    IN IF set = {} THEN 0 ELSE CHOOSE g \in set : \A h \in set : h <= g

\* pcre_exec(re, extra, subject, length, 0, 0, ovector, ovecsize): rc is the
\* return value; vec = TRUE when an ovector of (captures+1)*3 ints is passed,
\* FALSE for (NULL, 0), where a match returns 0.  ovector[0..1] are start/end,
\* caps[g] the pair of group g.
exec_result(m, vec) ==
    IF ~m.ok THEN [rc |-> PCRE_ERROR_NOMATCH, start |-> 0, end |-> 0, caps |-> <<>>]
    ELSE [rc |-> IF vec THEN TopSet(m.caps) + 1 ELSE 0,
          start |-> m.start, end |-> m.pos, caps |-> m.caps]

pcre_exec(re, subject, vec) ==
    IF PCRE_UTF8 \in re.flags /\ \E k \in 1..Len(subject) : subject[k] = BADBYTE
    THEN [rc |-> PCRE_ERROR_BADUTF8, start |-> 0, end |-> 0, caps |-> <<>>]
    ELSE exec_result(MatchFrom(re, subject, 0), vec)

(***************************************************************************)
(* Config-file parsing                                                     *)
(***************************************************************************)
\* Consume all blanks (according to isspace)
RECURSIVE parse_blanks(_, _)
parse_blanks(fd, pos) ==
    IF isspace(getc(fd, pos)) THEN parse_blanks(fd, pos+1) ELSE pos

\* Consume all characters until reaching EOL
RECURSIVE parse_comment(_, _)
parse_comment(fd, pos) ==
    LET c == getc(fd, pos) IN
    IF c = EOF THEN pos
    ELSE IF c = "\n" THEN pos+1
    ELSE parse_comment(fd, pos+1)

\* append c to string (the buffer doubles when full: always room)
string_append(string, c) == Append(string, c)

\* The loop of parse_string; st = "exit" is exit(1) on EOF, "undefined" the
\* string_size-- taken on an empty string.
RECURSIVE parse_string_loop(_, _, _, _, _)
parse_string_loop(fd, pos, sep, string, escaped) ==
    LET c == getc(fd, pos)
        esc == IF c = "\\" THEN 1 - escaped ELSE 0
    IN
    IF c = EOF THEN [st |-> "exit", string |-> string, pos |-> pos]
    ELSE IF c = sep
    THEN IF esc = 1
         THEN IF string = <<>>
              THEN [st |-> "undefined", string |-> string, pos |-> pos]
              ELSE parse_string_loop(fd, pos+1, sep,
                       string_append(SubSeq(string, 1, Len(string)-1), c), esc)
         ELSE [st |-> "ok", string |-> string, pos |-> pos+1]
    ELSE parse_string_loop(fd, pos+1, sep, string_append(string, c), esc)

\* Consume the string until reaching sep
parse_string(fd, pos, sep) == parse_string_loop(fd, pos, sep, <<>>, 0)

\* the flags loop of parse_regexp; it also consumes the blank that ends it
RECURSIVE parse_flags(_, _, _)
parse_flags(fd, pos, flags) ==
    LET c == getc(fd, pos) IN
    IF isspace(c) THEN [st |-> "ok", flags |-> flags, pos |-> pos+1]
    ELSE IF c \in {PCRE_CASELESS, PCRE_EXTENDED, PCRE_UTF8}
    THEN parse_flags(fd, pos+1, flags \cup {c})
    ELSE [st |-> "exit", flags |-> flags, pos |-> pos]

NoRegexp == [raw |-> NULL, flags |-> {}, captures |-> 0, code |-> <<>>]

\* parse_regexp leaving by exit(1) (st = "exit") or undefined behaviour
RegexpFail(st, pos) == [st |-> st, regexp |-> NoRegexp, pos |-> pos]

\* "Compilation": pcre_compile, pcre_fullinfo, raw
regexp_compiled(body, fl, re) ==
    IF ~re.ok THEN RegexpFail("exit", fl.pos)
    ELSE [st |-> "ok",
          regexp |-> [raw |-> body.string, flags |-> fl.flags,
                      captures |-> re.captures, code |-> re.code],
          pos |-> fl.pos]

\* "Get flags"
regexp_flags(body, fl) ==
    IF fl.st # "ok" THEN RegexpFail("exit", fl.pos)
    ELSE regexp_compiled(body, fl, pcre_compile(body.string, fl.flags))

\* "Get body"
regexp_body(fd, body) ==
    IF body.st # "ok" THEN RegexpFail(body.st, body.pos)
    ELSE regexp_flags(body, parse_flags(fd, body.pos, {}))

\* Consume the regexp (until reaching end-of-flags) and put it in regexp
parse_regexp(fd, pos0, sep0) ==
    LET first == IF sep0 = NOSEP THEN getc(fd, pos0) ELSE sep0
        pos1 == IF sep0 = NOSEP THEN pos0+1 ELSE pos0
        isM == sep0 = NOSEP /\ first = "m"
        sep == IF isM THEN getc(fd, pos1) ELSE first
        pos2 == IF isM THEN pos1+1 ELSE pos1
    IN
    IF sep0 = NOSEP /\ first # "m" /\ first # "/" THEN RegexpFail("exit", pos0)
    ELSE IF sep = EOF THEN RegexpFail("exit", pos0)
    ELSE regexp_body(fd, parse_string(fd, pos2, sep))

CMDLINE == "CMDLINE"
RULE == "RULE"
END == "END"

\* What parse_item hands to parse_config.  type is CMDLINE, RULE, END, or
\* "exit" / "undefined" when the parser leaves by exit(1) / undefined
\* behaviour; at is the offset of the item's first character, reEnd the
\* offset just after the blank that ended the regexp's flags, pos the offset
\* of the next byte to read.
Item(type, regexp, string, at, reEnd, pos) ==
    [type |-> type, regexp |-> regexp, string |-> string, at |-> at,
     reEnd |-> reEnd, pos |-> pos]

\* case '-'
item_cmdline(at, re) ==
    IF re.st # "ok" THEN Item(re.st, NoRegexp, NULL, at, at, re.pos)
    ELSE Item(CMDLINE, re.regexp, NULL, at, re.pos, re.pos)

\* case 'm', '/': parse_string(fd, string, '\n') has returned str
item_rule_string(at, re, str) ==
    IF str.st # "ok" THEN Item(str.st, NoRegexp, NULL, at, re.pos, str.pos)
    ELSE Item(RULE, re.regexp, str.string, at, re.pos, str.pos)

\* case 'm', '/': parse_regexp has returned re
item_rule(fd, at, re) ==
    IF re.st # "ok" THEN Item(re.st, NoRegexp, NULL, at, at, re.pos)
    ELSE item_rule_string(at, re, parse_string(fd, parse_blanks(fd, re.pos), "\n"))

\* Get a CMDLINE or RULE definition: the switch, after parse_blanks
RECURSIVE parse_item_at(_, _)
parse_item_at(fd, pos) ==
    LET c == getc(fd, pos)
        sep == IF c = "m" THEN getc(fd, pos+1) ELSE c
    IN
    IF c = "-"
    THEN item_cmdline(pos, parse_regexp(fd, parse_blanks(fd, pos+1), NOSEP))
    ELSE IF c \in {"m", "/"}
    THEN IF sep = EOF THEN Item("exit", NoRegexp, NULL, pos, pos, pos)
         ELSE item_rule(fd, pos, parse_regexp(fd, IF c = "m" THEN pos+2 ELSE pos+1, sep))
    ELSE IF c = "#" THEN parse_item_at(fd, parse_blanks(fd, parse_comment(fd, pos+1)))
    ELSE IF c = EOF THEN Item(END, NoRegexp, NULL, pos, pos, pos)
    ELSE Item("exit", NoRegexp, NULL, pos, pos, pos)

\* Get a CMDLINE or RULE definition
parse_item(fd, pos) == parse_item_at(fd, parse_blanks(fd, pos))

(***************************************************************************)
(* Rewrite stuff                                                           *)
(***************************************************************************)
\* /proc/<pid>/cmdline of a process whose arguments are argv: every
\* argument, the last one too, is followed by a NUL byte
RECURSIVE ProcCmdline(_)
ProcCmdline(argv) ==
    IF argv = <<>> THEN <<>> ELSE Head(argv) \o <<NUL>> \o ProcCmdline(Tail(argv))

\* proc.open: whether fopen of /proc/<pid>/cmdline succeeds; proc.bytes: the
\* bytes getc then returns
get_caller_cmdline(proc) ==
    IF ~proc.open THEN <<>>
    ELSE [k \in 1..Len(proc.bytes) |->
             IF proc.bytes[k] = NUL THEN " " ELSE proc.bytes[k]]

DIGITS == <<"0","1","2","3","4","5","6","7","8","9">>

\* snprintf(.., "%d", i) for i >= 0
RECURSIVE Decimal(_)
Decimal(i) ==
    IF i < 10 THEN <<DIGITS[i+1]>> ELSE Decimal(i \div 10) \o <<DIGITS[(i % 10) + 1]>>

StartsWith(s, k, from) ==
    /\ k + Len(from) - 1 <= Len(s)
    /\ \A j \in 1..Len(from) : s[k+j-1] = from[j]

\* string_replace (util.c): a copy of s with every occurrence of from, taken
\* left to right without rescanning, replaced by to
RECURSIVE string_replace_from(_, _, _, _)
string_replace_from(s, k, from, to) ==
    IF k > Len(s) THEN <<>>
    ELSE IF StartsWith(s, k, from)
    THEN to \o string_replace_from(s, k + Len(from), from, to)
    ELSE <<s[k]>> \o string_replace_from(s, k+1, from, to)

string_replace(s, from, to) == string_replace_from(s, 1, from, to)

\* pcre_get_substring(subject, ovector, stringcount, stringnumber, &substr)
pcre_get_substring(subject, ex, stringcount, stringnumber) ==
    IF stringnumber < 0 \/ stringnumber >= stringcount
    THEN [len |-> PCRE_ERROR_NOSUBSTRING, substr |-> <<>>]
    ELSE LET p == ex.caps[stringnumber] IN
         [len |-> p[2] - p[1], substr |-> SubSeq(subject, p[1]+1, p[2])]

\* "Replace backreferences": the loop i = 1..captures of apply_rule;
\* ok = FALSE when assert(substr_len >= 0) fails
RECURSIVE replace_backreferences(_, _, _, _, _)
replace_backreferences(i, captures, rewritten_path, subject, ex) ==
    IF i > captures THEN [ok |-> TRUE, rewritten_path |-> rewritten_path]
    ELSE LET sub == pcre_get_substring(subject, ex, ex.rc, i)
             replacement_from == <<"\\">> \o Decimal(i)
         IN IF sub.len < 0 THEN [ok |-> FALSE, rewritten_path |-> rewritten_path]
            ELSE replace_backreferences(i+1, captures,
                     string_replace(rewritten_path, replacement_from, sub.substr),
                     subject, ex)

NoRule == [filename_regexp |-> NoRegexp, rewritten_path |-> NULL]

\* "rewritten = orig_fs + part of path before the matched part +
\* rewritten_path + part of path after the matched path".  kind = "path":
\* rewritten is the string returned; "abort": an assert failed.  auto:
\* whether the call goes on to the autocreate block when config.autocreate
\* is set.
build_rewritten(path, orig_fs, ex, rep) ==
    IF ~rep.ok THEN [kind |-> "abort", rewritten |-> NULL, auto |-> FALSE]
    ELSE [kind |-> "path",
          rewritten |-> orig_fs \o SubSeq(path, 1, 1 + ex.start)
                        \o rep.rewritten_path
                        \o SubSeq(path, 2 + ex.end, Len(path)),
          auto |-> TRUE]

\* apply_rule once pcre_exec has filled the ovector
apply_match(path, rule, orig_fs, ex) ==
    build_rewritten(path, orig_fs, ex,
        replace_backreferences(1, rule.filename_regexp.captures,
                               rule.rewritten_path, Tail(path), ex))

\* apply_rule without the test for the "." rule (rewritten_path NULL)
apply_rule_no_sentinel(path, rule, orig_fs) ==
    IF rule = NoRule
    THEN [kind |-> "path", rewritten |-> orig_fs \o path, auto |-> FALSE]
    ELSE apply_match(path,
                     [rule EXCEPT !.rewritten_path = IF @ = NULL THEN <<".">> ELSE @],
                     orig_fs, pcre_exec(rule.filename_regexp, Tail(path), TRUE))

\* apply_rule up to the autocreate block
apply_rule(path, rule, orig_fs) ==
    IF rule = NoRule \/ rule.rewritten_path = NULL
    THEN [kind |-> "path", rewritten |-> orig_fs \o path, auto |-> FALSE]
    ELSE apply_match(path, rule, orig_fs,
                     pcre_exec(rule.filename_regexp, Tail(path), TRUE))

\* the inner loop of rewrite: the index of the first rule from r on whose
\* pcre_exec does not return a negative value, 0 if there is none
RECURSIVE rule_scan(_, _, _)
rule_scan(rules, r, path) ==
    IF r > Len(rules) THEN 0
    ELSE IF pcre_exec(rules[r].filename_regexp, Tail(path), FALSE).rc < 0
    THEN rule_scan(rules, r+1, path)
    ELSE r

\* the outer loop of rewrite from context c on; caller is NULL until
\* get_caller_cmdline ran.  ctx = 0: the loop ended, apply_rule(path, NULL).
RECURSIVE context_scan(_, _, _, _, _)
RECURSIVE context_cmdline(_, _, _, _, _)
RECURSIVE context_rules(_, _, _, _, _, _)
context_scan(ctxs, c, path, proc, caller) ==
    IF c > Len(ctxs) THEN [ctx |-> 0, rule |-> 0, caller |-> caller]
    ELSE IF ctxs[c].cmdline = NoRegexp
    THEN context_rules(ctxs, c, path, proc, caller, rule_scan(ctxs[c].rules, 1, path))
    ELSE context_cmdline(ctxs, c, path, proc,
             IF caller = NULL THEN get_caller_cmdline(proc) ELSE caller)

\* if(ctx->cmdline): caller has been read
context_cmdline(ctxs, c, path, proc, caller) ==
    IF pcre_exec(ctxs[c].cmdline, caller, FALSE).rc < 0
    THEN context_scan(ctxs, c+1, path, proc, caller)
    ELSE context_rules(ctxs, c, path, proc, caller, rule_scan(ctxs[c].rules, 1, path))

\* context_rules leaving the outer loop when no rule of context c matched
context_rules_no_fallthrough(ctxs, c, path, proc, caller, r) ==
    IF r # 0 THEN [ctx |-> c, rule |-> r, caller |-> caller]
    ELSE [ctx |-> 0, rule |-> 0, caller |-> caller]

\* after the loop over the rules of context c, which ended at rule r
context_rules(ctxs, c, path, proc, caller, r) ==
    IF r # 0 THEN [ctx |-> c, rule |-> r, caller |-> caller]
    ELSE context_scan(ctxs, c+1, path, proc, caller)

\* what rewrite did: the rule that won (ctx, rule: 0 if none), the caller
\* string read (NULL if it was not), and what apply_rule returned
rewrite_result(won, out) ==
    [ctx |-> won.ctx, rule |-> won.rule, caller |-> won.caller,
     kind |-> out.kind, rewritten |-> out.rewritten, auto |-> out.auto]

rewrite_apply(ctxs, path, orig_fs, won) ==
    rewrite_result(won,
        apply_rule(path,
                   IF won.ctx = 0 THEN NoRule ELSE ctxs[won.ctx].rules[won.rule],
                   orig_fs))

\* rewrite(path) up to apply_rule's autocreate block
rewrite(ctxs, path, proc, orig_fs) ==
    rewrite_apply(ctxs, path, orig_fs, context_scan(ctxs, 1, path, proc, NULL))

\* seteuid / setegid: permitted to a privileged process (effective uid 0) or
\* when the target is the real, effective or saved id; otherwise -1 and
\* nothing changes
seteuid(cred, id) ==
    IF cred.euid = 0 \/ id \in {cred.ruid, cred.euid, cred.suid}
    THEN [cred EXCEPT !.euid = id] ELSE cred

setegid(cred, id) ==
    IF cred.euid = 0 \/ id \in {cred.rgid, cred.egid, cred.sgid}
    THEN [cred EXCEPT !.egid = id] ELSE cred

(***************************************************************************)
(* Inputs                                                                  *)
(***************************************************************************)
\* the end-to-end configuration as the specification prints it:
\*   -/^myapp$/\n/^cache/(.*)$ /tmp/cache/\1\n-\n/^logs/(.*)$ .\n
CfgScenario ==
    <<"-","/","^","m","y","a","p","p","$","/","\n","/","^","c","a","c","h",
      "e","/","(",".","*",")","$"," ","/","t","m","p","/","c","a","c","h",
      "e","/","\\","1","\n","-","\n","/","^","l","o","g","s","/","(",".",
      "*",")","$"," ",".","\n">>

\* the same contexts and rules, every regex literal closed by its delimiter:
\*   -/^myapp$/\nm|^cache/(.*)$| /tmp/cache/\1\n-//\nm|^logs/(.*)$| .\n
CfgScenarioDelimited ==
    <<"-","/","^","m","y","a","p","p","$","/","\n","m","|","^","c","a","c",
      "h","e","/","(",".","*",")","$","|"," ","/","t","m","p","/","c","a",
      "c","h","e","/","\\","1","\n","-","/","/","\n","m","|","^","l","o",
      "g","s","/","(",".","*",")","$","|"," ",".","\n">>

\* rules with backreferences and optional groups, in the implicit context:
\*   m|^foo/(.*)$| bar/\1\n/^foo(bar)?$/ x\n/a(x)/ <\1>\n/^(a)?(x)$/ \1\2\3\nm|^(.*)/(.*)$| \1\n
CfgBackref ==
    <<"m","|","^","f","o","o","/","(",".","*",")","$","|"," ","b","a","r",
      "/","\\","1","\n","/","^","f","o","o","(","b","a","r",")","?","$","/",
      " ","x","\n","/","a","(","x",")","/"," ","<","\\","1",">","\n","/",
      "^","(","a",")","?","(","x",")","$","/"," ","\\","1","\\","2","\\",
      "3","\n","m","|","^","(",".","*",")","/","(",".","*",")","$","|"," ",
      "\\","1","\n">>

\* caller-scoped contexts, a context with the u flag, a default context:
\*   /^xx$/ q\n-/^a /\n/^x$/ A1\n/x/u A2\n- /b/u\n/xa/ B1\n/x/ .\n-//\n/^xa/ D1\n/x/ D2\n
CfgContexts ==
    <<"/","^","x","x","$","/"," ","q","\n","-","/","^","a"," ","/","\n","/",
      "^","x","$","/"," ","A","1","\n","/","x","/","u"," ","A","2","\n","-",
      " ","/","b","/","u","\n","/","x","a","/"," ","B","1","\n","/","x","/",
      " ",".","\n","-","/","/","\n","/","^","x","a","/"," ","D","1","\n",
      "/","x","/"," ","D","2","\n">>

\* a rule whose template is empty, followed by another rule:
\*   /a/\n/x/ y\n
CfgEmptyTemplate ==
    <<"/","a","/","\n","/","x","/"," ","y","\n">>

\* a rule whose pattern holds a backslash-escaped delimiter:
\*   /a\/x/ y\n
CfgEscapedDelimiter ==
    <<"/","a","\\","/","x","/"," ","y","\n">>

\* comments, blank lines, the i and x flags:
\*   # rules\n\n/A X/ix .\n  # more\n-//\n/x/ y z\n
CfgComment ==
    <<"#"," ","r","u","l","e","s","\n","\n","/","A"," ","X","/","i","x"," ",
      ".","\n"," "," ","#"," ","m","o","r","e","\n","-","/","/","\n","/",
      "x","/"," ","y"," ","z","\n">>

\* a last rule line that no newline ends:
\*   /x/ y
CfgNoNewline ==
    <<"/","x","/"," ","y">>

ConfigFiles ==
    {CfgScenario,
     CfgScenarioDelimited,
     CfgBackref,
     CfgContexts,
     CfgEmptyTemplate,
     CfgEscapedDelimiter,
     CfgComment,
     CfgNoNewline}

\* config.orig_fs: the canonical source directory, no trailing slash
RootData ==
    <<"/","d","a","t","a">>

RootSrv ==
    <<"/","s","r","v">>

Roots == {RootData, RootSrv}

PathCacheXY ==
    <<"/","c","a","c","h","e","/","x","/","y">>

PathLogsA ==
    <<"/","l","o","g","s","/","a">>

PathFoo ==
    <<"/","f","o","o">>

PathFoobar ==
    <<"/","f","o","o","b","a","r">>

PathFooBazQux ==
    <<"/","f","o","o","/","b","a","z","/","q","u","x">>

PathBackslash2 ==
    <<"/","\\","2","/","x">>

PathBadByte ==
    <<"/","x",BADBYTE>>

PathXax ==
    <<"/","x","a","x">>

MaxPathLen == 2

PathAlphabet == {"x", "a", "/"}

\* the texts over alphabet of length 0..n
RECURSIVE Words(_, _)
Words(alphabet, n) ==
    IF n = 0 THEN {<<>>}
    ELSE LET shorter == Words(alphabet, n-1) IN
         shorter \cup {Append(w, c) : w \in {v \in shorter : Len(v) = n-1}, c \in alphabet}

\* request paths: they begin with '/'
Paths ==
    {PathCacheXY, PathLogsA, PathFoo, PathFoobar,
     PathFooBazQux, PathBackslash2, PathBadByte, PathXax}
    \cup {<<"/">> \o w : w \in Words(PathAlphabet, MaxPathLen)}

ArgMyapp ==
    <<"m","y","a","p","p">>

ArgOther ==
    <<"o","t","h","e","r">>

ArgA ==
    <<"a">>

ArgB ==
    <<"b">>

ArgBad ==
    <<BADBYTE>>

\* argument vectors of requesting processes
Argvs == {<<ArgMyapp>>, <<ArgOther>>, <<ArgA, ArgB>>, <<ArgA, ArgBad>>}

\* what fopen/getc of /proc/<pid>/cmdline give: nothing when the process is
\* gone; the arguments, each followed by NUL; or, for a process that wrote
\* over its argument area, that text without a closing NUL
Procs ==
    {[open |-> FALSE, bytes |-> <<>>]}
    \cup {[open |-> TRUE, bytes |-> ProcCmdline(av)] : av \in Argvs}
    \cup {[open |-> TRUE, bytes |-> ArgMyapp], [open |-> TRUE, bytes |-> ArgOther]}

\* fuse_get_context()->uid, ->gid of the requests
Ids == {[uid |-> 0, gid |-> 0], [uid |-> 1000, gid |-> 1000],
        [uid |-> 1001, gid |-> 1001]}

\* the server runs as root
ServerCred ==
    [ruid |-> 0, euid |-> 0, suid |-> 0, rgid |-> 0, egid |-> 0, sgid |-> 0]

\* worker threads of the multithreaded server
NThreads == 2
Threads == 1..NThreads

\* the configuration and the requests of the multithreaded runs
AutoPaths == {PathFooBazQux, PathFoo, PathLogsA}

\* inputs of parse_string on its own
MaxLexLen == 4
LexAlphabet == {"a", "\\", "/", "|"}
LexSeps == {"/", "|"}

(***************************************************************************)
(* State                                                                   *)
(***************************************************************************)
VARIABLES
    config_file,  \* the text of config.config_file
    orig_fs,      \* config.orig_fs
    autocreate,   \* config.autocreate
    fpos,         \* offset of the next byte parse_config reads
    contexts,     \* config.contexts: each [cmdline, rules]
    pstate,       \* "parsing", "serving", "exit" (exit(1)), "undefined",
                  \* "aborted" (abort()), "lexing"
    item,         \* what the last parse_item returned
    req,          \* the request of the single worker: path, proc, uid, gid
    res,          \* what rewrite did with it
    cred,         \* the ids of the process: real, effective, saved
    thr,          \* per worker thread: the position inside apply_rule's
                  \* autocreate block and its locals
    lexsep,       \* the sep given to parse_string
    lex           \* what parse_string returned

vars == <<config_file, orig_fs, autocreate, fpos, contexts, pstate, item, req,
          res, cred, thr, lexsep, lex>>

NoItem == [type |-> "none", at |-> 0, reEnd |-> 0, string |-> NULL, pos |-> 0]
NoReq == [path |-> NULL, proc |-> [open |-> FALSE, bytes |-> <<>>], uid |-> 0, gid |-> 0]
NoRes == [ctx |-> 0, rule |-> 0, caller |-> NULL, kind |-> "none", rewritten |-> NULL,
          auto |-> FALSE, mk |-> <<>>]
NoLex == [st |-> "none", string |-> NULL, pos |-> 0]
Idle == [pc |-> "idle", uid |-> 0, gid |-> 0, _euid |-> 0, _egid |-> 0, mk |-> <<>>]

\* parse_config before its loop: one context, cmdline NULL, no rules
FirstContext == [cmdline |-> NoRegexp, rules |-> <<>>]

Startup(files, roots, autos, state) ==
    /\ config_file \in files
    /\ orig_fs \in roots
    /\ autocreate \in autos
    /\ fpos = 1
    /\ contexts = <<FirstContext>>
    /\ pstate = state
    /\ item = NoItem
    /\ req = NoReq
    /\ res = NoRes
    /\ cred = ServerCred
    /\ thr = [t \in Threads |-> Idle]
    /\ lexsep \in (IF state = "lexing" THEN LexSeps ELSE {"/"})
    /\ lex = NoLex

(***************************************************************************)
(* Operations                                                              *)
(***************************************************************************)
\* add_item keeping the template "." as a template
add_item_keep_dot(ctxs, it) ==
    IF it.type = CMDLINE
    THEN Append(ctxs, [cmdline |-> IF it.regexp.raw = <<>> THEN NoRegexp ELSE it.regexp,
                       rules |-> <<>>])
    ELSE IF it.type = RULE
    THEN [ctxs EXCEPT ![Len(ctxs)].rules =
             Append(@, [filename_regexp |-> it.regexp, rewritten_path |-> it.string])]
    ELSE ctxs

\* the contexts after parse_config took item it
add_item(ctxs, it) ==
    IF it.type = CMDLINE
    THEN Append(ctxs, [cmdline |-> IF it.regexp.raw = <<>> THEN NoRegexp ELSE it.regexp,
                       rules |-> <<>>])
    ELSE IF it.type = RULE
    THEN [ctxs EXCEPT ![Len(ctxs)].rules =
             Append(@, [filename_regexp |-> it.regexp,
                        rewritten_path |-> IF it.string = <<".">> THEN NULL
                                           ELSE it.string])]
    ELSE ctxs

\* one turn of parse_config's do-while loop
parse_config ==
    /\ pstate = "parsing"
    /\ \E it \in {parse_item(config_file, fpos)} :
       /\ item' = [type |-> it.type, at |-> it.at, reEnd |-> it.reEnd,
                   string |-> it.string, pos |-> it.pos]
       /\ fpos' = it.pos
       /\ contexts' = add_item(contexts, it)
       /\ pstate' = IF it.type \in {CMDLINE, RULE} THEN "parsing"
                    ELSE IF it.type = END THEN "serving"
                    ELSE it.type
    /\ UNCHANGED <<config_file, orig_fs, autocreate, req, res, cred, thr, lexsep, lex>>

\* rewrite(path) in a server with a single worker: the whole call, the
\* autocreate block of apply_rule included.  The configuration is read-only
\* once parsed and rewrite keeps nothing between calls, so a behaviour
\* serves one request.
Rewrite ==
    /\ pstate = "serving"
    /\ req = NoReq
    /\ \E path \in Paths, proc \in Procs, id \in Ids :
        \E out \in {rewrite(contexts, path, proc, orig_fs)} :
        LET switch == autocreate = 1 /\ out.kind = "path" /\ out.auto
            c1 == seteuid(cred, id.uid)
            c2 == setegid(c1, id.gid)
            c3 == seteuid(c2, cred.euid)
            c4 == setegid(c3, cred.egid)
        IN /\ req' = [path |-> path, proc |-> proc, uid |-> id.uid, gid |-> id.gid]
           /\ res' = [ctx |-> out.ctx, rule |-> out.rule, caller |-> out.caller,
                      kind |-> out.kind, rewritten |-> out.rewritten,
                      auto |-> out.auto,
                      mk |-> IF switch THEN <<c2.euid, c2.egid>> ELSE <<>>]
           /\ cred' = IF switch THEN c4 ELSE cred
           /\ pstate' = IF out.kind = "abort" THEN "aborted" ELSE "serving"
    /\ UNCHANGED <<config_file, orig_fs, autocreate, fpos, contexts, item, thr, lexsep, lex>>

\* A worker thread calls rewrite: everything up to the autocreate block.
Begin(t) ==
    /\ pstate = "serving"
    /\ thr[t].pc = "idle"
    /\ \E path \in AutoPaths, id \in Ids :
        \E out \in {rewrite(contexts, path, [open |-> FALSE, bytes |-> <<>>], orig_fs)} :
        LET switch == autocreate = 1 /\ out.kind = "path" /\ out.auto
        IN /\ thr' = [thr EXCEPT ![t] =
                          IF switch
                          THEN [Idle EXCEPT !.pc = "geteuid", !.uid = id.uid, !.gid = id.gid]
                          ELSE Idle]
           /\ pstate' = IF out.kind = "abort" THEN "aborted" ELSE "serving"
    /\ UNCHANGED <<config_file, orig_fs, autocreate, fpos, contexts, item, req, res,
                   cred, lexsep, lex>>

Step(t, from, to) ==
    /\ pstate = "serving"
    /\ thr[t].pc = from
    /\ UNCHANGED <<config_file, orig_fs, autocreate, fpos, contexts, pstate, item,
                   req, res, lexsep, lex>>

\* uid_t _euid = geteuid();
GetEuid(t) ==
    /\ Step(t, "geteuid", "getegid")
    /\ thr' = [thr EXCEPT ![t].pc = "getegid", ![t]._euid = cred.euid]
    /\ UNCHANGED cred

\* gid_t _egid = getegid();
GetEgid(t) ==
    /\ Step(t, "getegid", "seteuid")
    /\ thr' = [thr EXCEPT ![t].pc = "seteuid", ![t]._egid = cred.egid]
    /\ UNCHANGED cred

\* seteuid(fuse_get_context()->uid)
SetEuid(t) ==
    /\ Step(t, "seteuid", "setegid")
    /\ cred' = seteuid(cred, thr[t].uid)
    /\ thr' = [thr EXCEPT ![t].pc = "setegid"]

\* setegid(fuse_get_context()->gid)
SetEgid(t) ==
    /\ Step(t, "setegid", "mkdir")
    /\ cred' = setegid(cred, thr[t].gid)
    /\ thr' = [thr EXCEPT ![t].pc = "mkdir"]

\* mkdir_parents(rewritten, 0777): the directories are made under the
\* effective ids of the process at that moment; its result selects a
\* warning only
MkdirParents(t) ==
    /\ Step(t, "mkdir", "restore_euid")
    /\ thr' = [thr EXCEPT ![t].pc = "restore_euid", ![t].mk = <<cred.euid, cred.egid>>]
    /\ UNCHANGED cred

\* seteuid(_euid)
RestoreEuid(t) ==
    /\ Step(t, "restore_euid", "restore_egid")
    /\ cred' = seteuid(cred, thr[t]._euid)
    /\ thr' = [thr EXCEPT ![t].pc = "restore_egid"]

\* setegid(_egid), and apply_rule returns
RestoreEgid(t) ==
    /\ Step(t, "restore_egid", "idle")
    /\ cred' = setegid(cred, thr[t]._egid)
    /\ thr' = [thr EXCEPT ![t] = Idle]

\* parse_string on a text of its own
Lex ==
    /\ pstate = "lexing"
    /\ lex = NoLex
    /\ lex' = parse_string(config_file, 1, lexsep)
    /\ UNCHANGED <<config_file, orig_fs, autocreate, fpos, contexts, pstate, item,
                   req, res, cred, thr, lexsep>>

(***************************************************************************)
(* Specifications                                                          *)
(***************************************************************************)
\* startup, then a server with one worker
Init == Startup(ConfigFiles, Roots, {0, 1}, "parsing")

Next == parse_config \/ Rewrite

Spec == Init /\ [][Next]_vars

\* startup with autocreate, then NThreads workers
InitAuto == Startup({CfgBackref}, {RootData}, {1}, "parsing")

NextAuto ==
    \/ parse_config
    \/ \E t \in Threads :
        \/ Begin(t)
        \/ GetEuid(t)
        \/ GetEgid(t)
        \/ SetEuid(t)
        \/ SetEgid(t)
        \/ MkdirParents(t)
        \/ RestoreEuid(t)
        \/ RestoreEgid(t)

SpecAuto == InitAuto /\ [][NextAuto]_vars

\* parse_string on every text of LexAlphabet up to MaxLexLen
InitLex == Startup(Words(LexAlphabet, MaxLexLen), {RootData}, {0}, "lexing")

NextLex == Lex

SpecLex == InitLex /\ [][NextLex]_vars

(***************************************************************************)
(* Properties                                                              *)
(***************************************************************************)
Served == req # NoReq

\* the caller command line of the request served
CallerOf == get_caller_cmdline(req.proc)

\* context c is examined: it has no caller pattern, or the pattern matches
Applies(c) ==
    \/ contexts[c].cmdline = NoRegexp
    \/ pcre_exec(contexts[c].cmdline, CallerOf, FALSE).rc >= 0

\* rule r of context c matches the request path without its leading '/'
RuleMatches(c, r) ==
    pcre_exec(contexts[c].rules[r].filename_regexp, Tail(req.path), FALSE).rc >= 0

Candidates ==
    {cr \in UNION {{<<c, r>> : r \in 1..Len(contexts[c].rules)} : c \in 1..Len(contexts)} :
        Applies(cr[1]) /\ RuleMatches(cr[1], cr[2])}

Before(a, b) == a[1] < b[1] \/ (a[1] = b[1] /\ a[2] <= b[2])

\* the first candidate in (context, rule) declaration order
FirstCandidate == CHOOSE a \in Candidates : \A b \in Candidates : Before(a, b)

WinningRule == contexts[FirstCandidate[1]].rules[FirstCandidate[2]]

\* C1: if no rule matches in any examined context, or the winning rule's
\* template is the passthrough sentinel, rewrite returns root ++ path.
C1_PassthroughVerbatim ==
    (Served /\ (Candidates = {} \/ WinningRule.rewritten_path = NULL))
        => (res.kind = "path" /\ res.rewritten = orig_fs \o req.path)

\* C1 witness: a passthrough rule won and the path came back under the root
C1_Witness ==
    /\ Served
    /\ Candidates # {}
    /\ WinningRule.rewritten_path = NULL
    /\ res.rewritten = orig_fs \o req.path

\* C2: the rule applied is the first rule, in context then rule order, that
\* matches the path, over the contexts whose caller pattern is absent or
\* matches the caller; no rule is applied when there is no such rule.
C2_FirstMatchWins ==
    Served =>
        IF Candidates = {} THEN res.ctx = 0 /\ res.rule = 0
        ELSE <<res.ctx, res.rule>> = FirstCandidate

\* C2 witness: the winning rule stands in a context after a context whose
\* caller pattern matched and all of whose rules failed, and a later rule of
\* the winner's context matches too
C2_Witness ==
    /\ Served
    /\ res.ctx # 0
    /\ \E c \in 1..(res.ctx - 1) :
          /\ contexts[c].cmdline # NoRegexp
          /\ Applies(c)
          /\ contexts[c].rules # <<>>
          /\ \A r \in 1..Len(contexts[c].rules) : ~RuleMatches(c, r)
    /\ \E c \in 1..Len(contexts) :
          /\ contexts[c].cmdline # NoRegexp
          /\ ~Applies(c)
          /\ \E r \in 1..Len(contexts[c].rules) : RuleMatches(c, r)

IsDigit(c) == \E d \in 1..Len(DIGITS) : DIGITS[d] = c

DigitValue(c) == (CHOOSE d \in 1..Len(DIGITS) : DIGITS[d] = c) - 1

\* the number of digits of t from offset k on
RECURSIVE DigitRun(_, _)
DigitRun(t, k) == IF k <= Len(t) /\ IsDigit(t[k]) THEN 1 + DigitRun(t, k+1) ELSE 0

\* the value of the n digits of t that end at offset k
RECURSIVE Number(_, _, _)
Number(t, k, n) == IF n = 0 THEN 0 ELSE 10 * Number(t, k-1, n-1) + DigitValue(t[k])

\* the offsets of the backreference tokens of template t: a backslash and
\* the digits that follow it
Tokens(t) == {k \in 1..Len(t) : t[k] = "\\" /\ DigitRun(t, k+1) > 0}

TokenNumber(t, k) == Number(t, k + DigitRun(t, k+1), DigitRun(t, k+1))

\* the text of group n of match ex on subject (empty for a group not set)
GroupText(subject, ex, n) == SubSeq(subject, ex.caps[n][1] + 1, ex.caps[n][2])

\* template t from offset k on, expanded in one left-to-right pass: \N with
\* 1 <= N <= captures becomes the text of group N, every other byte is copied
RECURSIVE ExpandOnePass(_, _, _, _, _)
ExpandOnePass(t, k, captures, subject, ex) ==
    IF k > Len(t) THEN <<>>
    ELSE IF k \in Tokens(t) /\ TokenNumber(t, k) \in 1..captures
    THEN GroupText(subject, ex, TokenNumber(t, k))
         \o ExpandOnePass(t, k + 1 + DigitRun(t, k+1), captures, subject, ex)
    ELSE <<t[k]>> \o ExpandOnePass(t, k+1, captures, subject, ex)

\* the rule rewrite applied, and its match on the request path
AppliedRule == contexts[res.ctx].rules[res.rule]

AppliedMatch == pcre_exec(AppliedRule.filename_regexp, Tail(req.path), TRUE)

Rewrote == Served /\ res.ctx # 0 /\ AppliedRule.rewritten_path # NULL

\* C3: with a non-passthrough winning rule the result is root ++ the path up
\* to the start of the match ++ the template expanded in one pass ++ the
\* path from the end of the match.
C3_OnePassExpansion ==
    (Rewrote /\ res.kind = "path") =>
        res.rewritten =
            orig_fs \o SubSeq(req.path, 1, 1 + AppliedMatch.start)
            \o ExpandOnePass(AppliedRule.rewritten_path, 1,
                             AppliedRule.filename_regexp.captures,
                             Tail(req.path), AppliedMatch)
            \o SubSeq(req.path, 2 + AppliedMatch.end, Len(req.path))

\* the template refers to a group that is out of range or did not take part
\* in the match
BadBackreference ==
    \E k \in Tokens(AppliedRule.rewritten_path) :
        LET n == TokenNumber(AppliedRule.rewritten_path, k) IN
        \/ n > AppliedRule.filename_regexp.captures
        \/ (n >= 1 /\ AppliedMatch.caps[n][1] < 0)

\* C5: resolution through a non-passthrough winning rule aborts exactly when
\* its template holds a backreference to a group that is out of range or did
\* not take part in the match; otherwise it returns a path.
C5_AbortOnlyOnBadBackreference ==
    Rewrote => ((res.kind = "abort") <=> BadBackreference)

TmpCacheXY ==
    <<"/","t","m","p","/","c","a","c","h","e","/","x","/","y">>

DataLogsA ==
    <<"/","d","a","t","a","/","l","o","g","s","/","a">>

DataTmpCacheXY ==
    <<"/","d","a","t","a","/","/","t","m","p","/","c","a","c","h","e","/",
      "x","/","y">>

MyappPattern ==
    <<"^","m","y","a","p","p","$">>

\* the contexts of the end-to-end scenario: from context `from` on, a context
\* for ^myapp$ with one rewriting rule, then a default context with one
\* passthrough rule
ScenarioContexts(from) ==
    /\ Len(contexts) = from + 1
    /\ contexts[from].cmdline.raw = MyappPattern
    /\ Len(contexts[from].rules) = 1
    /\ contexts[from].rules[1].rewritten_path # NULL
    /\ contexts[from+1].cmdline = NoRegexp
    /\ Len(contexts[from+1].rules) = 1
    /\ contexts[from+1].rules[1].rewritten_path = NULL

DataCacheXY ==
    <<"/","d","a","t","a">> \o PathCacheXY

RECURSIVE LineText(_, _)
LineText(fd, k) ==
    IF k > Len(fd) \/ fd[k] = "\n" THEN <<>> ELSE <<fd[k]>> \o LineText(fd, k+1)

RECURSIVE LineTemplate(_, _)
LineTemplate(fd, e) ==
    IF e <= Len(fd) /\ isspace(fd[e]) /\ fd[e] # "\n" THEN LineTemplate(fd, e+1)
    ELSE LineText(fd, e)

\* C9: the template of every rule parsed is the text of the rule's own line
\* after the blanks that follow the flags, up to that line's newline.
C9_TemplateOnOwnLine ==
    item.type = RULE => item.string = LineTemplate(config_file, item.reEnd - 1)

\* the arguments joined by one space, nothing before or after
RECURSIVE JoinSpace(_)
JoinSpace(argv) ==
    IF argv = <<>> THEN <<>>
    ELSE IF Len(argv) = 1 THEN Head(argv)
    ELSE Head(argv) \o <<" ">> \o JoinSpace(Tail(argv))

\* C10: from the NUL-terminated arguments get_caller_cmdline returns the
\* arguments joined by single spaces with no trailing separator, and the
\* empty string when the representation cannot be opened.
C10_JoinedBySingleSpaces ==
    (Served /\ res.caller # NULL) =>
        /\ ~req.proc.open => res.caller = <<>>
        /\ \A av \in Argvs :
              (req.proc.open /\ req.proc.bytes = ProcCmdline(av))
                  => res.caller = JoinSpace(av)

\* C6: whenever no call is inside the switch / create / restore sequence the
\* effective uid and gid of the process are the server's own.
C6_IdentityRestored ==
    (\A t \in Threads : thr[t].pc = "idle")
        => (cred.euid = ServerCred.euid /\ cred.egid = ServerCred.egid)

\* C7: every directory creation runs while the effective uid and gid of the
\* process are the uid and gid of the request the call serves.
C7_CreatedAsRequester ==
    \A t \in Threads :
        thr[t].mk # <<>> => thr[t].mk = <<thr[t].uid, thr[t].gid>>

\* the regex literal body by the escaping rule: a backslash right before the
\* delimiter is dropped and the delimiter kept, the first other delimiter
\* ends the literal, everything else is copied
RECURSIVE EscapedBody(_, _, _, _)
EscapedBody(fd, k, sep, string) ==
    IF k > Len(fd) THEN [st |-> "exit", string |-> string, pos |-> k]
    ELSE IF fd[k] = "\\" /\ k < Len(fd) /\ fd[k+1] = sep
    THEN EscapedBody(fd, k+2, sep, Append(string, sep))
    ELSE IF fd[k] = sep THEN [st |-> "ok", string |-> string, pos |-> k+1]
    ELSE EscapedBody(fd, k+1, sep, Append(string, fd[k]))

\* C8: in a regex literal body a backslash right before the delimiter is
\* dropped, the delimiter is kept and does not end the literal; the literal
\* ends at the first delimiter no backslash precedes; the rest is unchanged.
C8_EscapedDelimiterKept ==
    lex.st # "none" =>
        LET want == EscapedBody(config_file, 1, lexsep, <<>>) IN
        /\ lex.st = want.st
        /\ want.st = "ok" => (lex.string = want.string /\ lex.pos = want.pos)

====
